---- MODULE Spec2Model ----
(***************************************************************************)
(* Tracker events of sc2reader (src/sc2reader/events/tracker.py).          *)
(*                                                                         *)
(* Every event class is a constructor over (frames, data, build); the      *)
(* model keeps the event most recently built from the record stream, the   *)
(* exception its constructor raised (if any), the unit registry of the     *)
(* replay the events are resolved against, the load_context calls made on  *)
(* the event, and the outcome of the last read of its pid or player.       *)
(*                                                                         *)
(* Python integers are unbounded.  Frames and composite unit ids exceed    *)
(* the range of TLC's integers, so such a number is kept as the set of the *)
(* positions of its 1 bits (7 is {0,1,2}, 2^32 + 7 is {0,1,2,32}); shifts  *)
(* and bitwise operators act on those sets as they act on the bits.        *)
(***************************************************************************)
EXTENDS Integers, Sequences, FiniteSets, TLC

VARIABLES
    record,     \* the tracker record last handed to a constructor
    event,      \* the event built from it, NoEvent when the constructor raised
    raised,     \* the exception the constructor raised, "none" otherwise
    registry,   \* the unit ids known to the replay's unit registry
    loads,      \* the registry as it was at each load_context call on the event
    got         \* what the last read of event.pid or event.player gave

vars == <<record, event, raised, registry, loads, got>>

\* ------------------------------------------------------------- bounds

\* load_context invocations followed on one event
MaxCalls == 2

\* longest flat item sequence of a UnitPositionsEvent record
MaxItems == 6

\* ------------------------------------------------- values and helpers

\* Python's None, and a present value of a field that may be None
None == <<>>

Some(v) == <<v>>

\* the binary representation of a natural number: the bits of n, the
\* lowest at position i
RECURSIVE BitsFrom(_, _)
BitsFrom(n, i) ==
    IF n = 0 THEN {}
    ELSE (IF n % 2 = 1 THEN {i} ELSE {}) \cup BitsFrom(n \div 2, i + 1)

Bits(n) == BitsFrom(n, 0)

\* a << k
ShiftLeft(a, k) == {i + k : i \in a}

\* a >> k
ShiftRight(a, k) == {i - k : i \in {j \in a : j >= k}}

\* a | b
BitOr(a, b) == a \cup b

\* a & b
BitAnd(a, b) == a \cap b

\* a % 2**w, a >= 0
ModPow2(a, w) == {i \in a : i < w}

\* long division of the number with bits a by the small divisor d, from
\* the top bit down: [q |-> a // d, r |-> a % d]
RECURSIVE DivModFrom(_, _, _, _)
DivModFrom(a, d, i, acc) ==
    IF i < 0 THEN acc
    ELSE LET r2 == 2 * acc.r + (IF i \in a THEN 1 ELSE 0)
         IN  DivModFrom(a, d, i - 1,
                        IF r2 >= d THEN [q |-> 2 * acc.q + 1, r |-> r2 - d]
                                   ELSE [q |-> 2 * acc.q, r |-> r2])

DivMod(a, d) ==
    DivModFrom(a, d, IF a = {} THEN 0 ELSE CHOOSE i \in a : \A j \in a : j <= i,
               [q |-> 0, r |-> 0])

\* data[i], with the source's indices from 0
At(data, i) == data[i + 1]

\* the outcome of a constructor that raised
Raise(exc) == [exc |-> exc]

IsRaise(r) == "exc" \in DOMAIN r

\* the stream position before any record
NoEvent == [name |-> "NoEvent"]

\* ------------------------------------------------------------ utf-8

IsCont(b) == b >= 128 /\ b <= 191

\* bytes.decode("utf8"): the code points, or a UnicodeDecodeError
RECURSIVE Utf8From(_, _, _)
Utf8From(bs, i, acc) ==
    IF i > Len(bs) THEN [chars |-> acc]
    ELSE LET b == bs[i]
             n == Len(bs) - i
         IN  IF b < 128 THEN Utf8From(bs, i + 1, Append(acc, b))
             ELSE IF b >= 194 /\ b <= 223 /\ n >= 1 /\ IsCont(bs[i + 1])
             THEN Utf8From(bs, i + 2,
                           Append(acc, (b - 192) * 64 + (bs[i + 1] - 128)))
             ELSE IF /\ b >= 224 /\ b <= 239 /\ n >= 2
                     /\ IsCont(bs[i + 1]) /\ IsCont(bs[i + 2])
                     /\ (b = 224 => bs[i + 1] >= 160)
                     /\ (b = 237 => bs[i + 1] <= 159)
             THEN Utf8From(bs, i + 3,
                           Append(acc, (b - 224) * 4096 + (bs[i + 1] - 128) * 64
                                       + (bs[i + 2] - 128)))
             ELSE IF /\ b >= 240 /\ b <= 244 /\ n >= 3
                     /\ IsCont(bs[i + 1]) /\ IsCont(bs[i + 2]) /\ IsCont(bs[i + 3])
                     /\ (b = 240 => bs[i + 1] >= 144)
                     /\ (b = 244 => bs[i + 1] <= 143)
             THEN Utf8From(bs, i + 4,
                           Append(acc, (b - 240) * 262144 + (bs[i + 1] - 128) * 4096
                                       + (bs[i + 2] - 128) * 64 + (bs[i + 3] - 128)))
             ELSE Raise("UnicodeDecodeError")

decode_utf8(bs) == Utf8From(bs, 1, <<>>)

\* ------------------------------------------------------ TrackerEvent

\* self.frame = frames % 2**32
\* (faulty variant: the frame kept as read)
WrapFrame_unwrapped(frames) == frames

WrapFrame(frames) == ModPow2(frames, 32)

\* self.second = int(self.frame / 22.4); frame / 22.4 = 5 * frame / 112
\* (faulty variant: the line's former self.frame >> 4)
second_of_shift4(frame) == DivMod(frame, 16).q

second_of(frame) ==
    LET d == DivMod(frame, 112) IN 5 * d.q + ((5 * d.r) \div 112)

TrackerEvent(frames, cls) ==
    LET frame == WrapFrame(frames)
    IN  [frame |-> frame, second |-> second_of(frame), name |-> cls]

\* load_context(self, replay): pass
\* (faulty variant: the event's unit entered into the replay's registry)
load_context_registering(self, replay) ==
    [self |-> self,
     replay |-> IF "unit_id" \in DOMAIN self THEN replay \cup {self.unit_id}
                ELSE replay]

\* (faulty variant: the killer looked up in the registry and stored)
load_context_resolving(self, replay) ==
    [self |-> IF /\ self.name = "UnitDiedEvent"
                 /\ self.killing_unit_id # None
                 /\ self.killing_unit_id[1] \in replay
              THEN [self EXCEPT !.killing_unit = self.killing_unit_id]
              ELSE self,
     replay |-> replay]

\* (faulty variant: the unit reference filled in from the raw id, with no
\* look at the registry)
load_context_eager(self, replay) ==
    [self |-> IF "unit" \in DOMAIN self
              THEN [self EXCEPT !.unit = Some(self.unit_id)]
              ELSE self,
     replay |-> replay]

load_context(self, replay) == [self |-> self, replay |-> replay]

\* ------------------------------------------------ unit identity, scale

\* index << 18 | recycle
\* (faulty variant: the index shifted by 16 bits only)
unit_id_of_shift16(index, recycle) ==
    BitOr(ShiftLeft(Bits(index), 16), Bits(recycle))

unit_id_of(index, recycle) == BitOr(ShiftLeft(Bits(index), 18), Bits(recycle))

\* the coordinate as stored: if build < 27950: x = x * 4
\* (faulty variant: build 27950 itself scaled too)
ScaleCoord_inclusive(v, build) == IF build <= 27950 THEN v * 4 ELSE v

ScaleCoord(v, build) == IF build < 27950 THEN v * 4 ELSE v

\* ---------------------------------------------------- PlayerSetupEvent

\* (faulty variant: a record of any other field count refused)
PlayerSetupEvent_strict(frames, data, build) ==
    IF Len(data) # 4 THEN Raise("IndexError")
    ELSE TrackerEvent(frames, "PlayerSetupEvent") @@
         [pid |-> At(data, 0), type |-> At(data, 1),
          uid |-> At(data, 2), sid |-> At(data, 3)]

PlayerSetupEvent(frames, data, build) ==
    IF Len(data) < 4 THEN Raise("IndexError")
    ELSE TrackerEvent(frames, "PlayerSetupEvent") @@
         [pid |-> At(data, 0), type |-> At(data, 1),
          uid |-> At(data, 2), sid |-> At(data, 3)]

\* ---------------------------------------------------- PlayerStatsEvent

\* clamp = functools.partial(max, 0)
\* (faulty variant: the value kept as read)
clamp_unclamped(x) == x

clamp(x) == IF x > 0 THEN x ELSE 0

\* n / 4096.0: the quotient of an integer below 2^53 by a power of two is
\* exact in binary floating point, so the float is the rational num / den
TrueDiv4096(n) == [num |-> n, den |-> 4096]

\* clamp(self.stats[i]) if build >= 26490 else None
\* (faulty variant: gated by the coordinate threshold)
ff_stat_27950(stats, i, build) ==
    IF build >= 27950 THEN Some(clamp(At(stats, i))) ELSE None

ff_stat(stats, i, build) ==
    IF build >= 26490 THEN Some(clamp(At(stats, i))) ELSE None

\* the sum of three stored fields, as the source adds them
\* (faulty variant: the technology field left out)
sum3_first2(a, b, c) == a + b

sum3(a, b, c) == a + b + c

\* the stat slots the constructor reads
StatsRead(build) == IF build >= 26490 THEN 39 ELSE 33

PlayerStatsFields(stats, build) ==
    LET minerals_used_in_progress_army == clamp(At(stats, 5))
        minerals_used_in_progress_economy == clamp(At(stats, 6))
        minerals_used_in_progress_technology == clamp(At(stats, 7))
        minerals_used_in_progress ==
            sum3(minerals_used_in_progress_army,
                 minerals_used_in_progress_economy,
                 minerals_used_in_progress_technology)
        vespene_used_in_progress_army == clamp(At(stats, 8))
        vespene_used_in_progress_economy == clamp(At(stats, 9))
        vespene_used_in_progress_technology == clamp(At(stats, 10))
        vespene_used_in_progress ==
            sum3(vespene_used_in_progress_army,
                 vespene_used_in_progress_economy,
                 vespene_used_in_progress_technology)
        minerals_used_current_army == clamp(At(stats, 11))
        minerals_used_current_economy == clamp(At(stats, 12))
        minerals_used_current_technology == clamp(At(stats, 13))
        minerals_used_current ==
            sum3(minerals_used_current_army,
                 minerals_used_current_economy,
                 minerals_used_current_technology)
        vespene_used_current_army == clamp(At(stats, 14))
        vespene_used_current_economy == clamp(At(stats, 15))
        vespene_used_current_technology == clamp(At(stats, 16))
        vespene_used_current ==
            sum3(vespene_used_current_army,
                 vespene_used_current_economy,
                 vespene_used_current_technology)
        minerals_lost_army == clamp(At(stats, 17))
        minerals_lost_economy == clamp(At(stats, 18))
        minerals_lost_technology == clamp(At(stats, 19))
        minerals_lost ==
            sum3(minerals_lost_army, minerals_lost_economy,
                 minerals_lost_technology)
        vespene_lost_army == clamp(At(stats, 20))
        vespene_lost_economy == clamp(At(stats, 21))
        vespene_lost_technology == clamp(At(stats, 22))
        vespene_lost ==
            sum3(vespene_lost_army, vespene_lost_economy,
                 vespene_lost_technology)
        minerals_killed_army == clamp(At(stats, 23))
        minerals_killed_economy == clamp(At(stats, 24))
        minerals_killed_technology == clamp(At(stats, 25))
        minerals_killed ==
            sum3(minerals_killed_army, minerals_killed_economy,
                 minerals_killed_technology)
        vespene_killed_army == clamp(At(stats, 26))
        vespene_killed_economy == clamp(At(stats, 27))
        vespene_killed_technology == clamp(At(stats, 28))
        vespene_killed ==
            sum3(vespene_killed_army, vespene_killed_economy,
                 vespene_killed_technology)
    IN  [player |-> None,
         stats |-> stats,
         minerals_current |-> clamp(At(stats, 0)),
         vespene_current |-> clamp(At(stats, 1)),
         minerals_collection_rate |-> clamp(At(stats, 2)),
         vespene_collection_rate |-> clamp(At(stats, 3)),
         workers_active_count |-> clamp(At(stats, 4)),
         minerals_used_in_progress_army |-> minerals_used_in_progress_army,
         minerals_used_in_progress_economy |-> minerals_used_in_progress_economy,
         minerals_used_in_progress_technology |->
             minerals_used_in_progress_technology,
         minerals_used_in_progress |-> minerals_used_in_progress,
         vespene_used_in_progress_army |-> vespene_used_in_progress_army,
         vespene_used_in_progress_economy |-> vespene_used_in_progress_economy,
         vespene_used_in_progress_technology |->
             vespene_used_in_progress_technology,
         vespene_used_in_progress |-> vespene_used_in_progress,
         resources_used_in_progress |->
             minerals_used_in_progress + vespene_used_in_progress,
         minerals_used_current_army |-> minerals_used_current_army,
         minerals_used_current_economy |-> minerals_used_current_economy,
         minerals_used_current_technology |-> minerals_used_current_technology,
         minerals_used_current |-> minerals_used_current,
         vespene_used_current_army |-> vespene_used_current_army,
         vespene_used_current_economy |-> vespene_used_current_economy,
         vespene_used_current_technology |-> vespene_used_current_technology,
         vespene_used_current |-> vespene_used_current,
         resources_used_current |->
             minerals_used_current + vespene_used_current,
         minerals_lost_army |-> minerals_lost_army,
         minerals_lost_economy |-> minerals_lost_economy,
         minerals_lost_technology |-> minerals_lost_technology,
         minerals_lost |-> minerals_lost,
         vespene_lost_army |-> vespene_lost_army,
         vespene_lost_economy |-> vespene_lost_economy,
         vespene_lost_technology |-> vespene_lost_technology,
         vespene_lost |-> vespene_lost,
         resources_lost |-> minerals_lost + vespene_lost,
         minerals_killed_army |-> minerals_killed_army,
         minerals_killed_economy |-> minerals_killed_economy,
         minerals_killed_technology |-> minerals_killed_technology,
         minerals_killed |-> minerals_killed,
         vespene_killed_army |-> vespene_killed_army,
         vespene_killed_economy |-> vespene_killed_economy,
         vespene_killed_technology |-> vespene_killed_technology,
         vespene_killed |-> vespene_killed,
         resources_killed |-> minerals_killed + vespene_killed,
         food_used |-> TrueDiv4096(clamp(At(stats, 29))),
         food_made |-> TrueDiv4096(clamp(At(stats, 30))),
         minerals_used_active_forces |-> clamp(At(stats, 31)),
         vespene_used_active_forces |-> clamp(At(stats, 32)),
         ff_minerals_lost_army |-> ff_stat(stats, 33, build),
         ff_minerals_lost_economy |-> ff_stat(stats, 34, build),
         ff_minerals_lost_technology |-> ff_stat(stats, 35, build),
         ff_vespene_lost_army |-> ff_stat(stats, 36, build),
         ff_vespene_lost_economy |-> ff_stat(stats, 37, build),
         ff_vespene_lost_technology |-> ff_stat(stats, 38, build)]

PlayerStatsEvent(frames, data, build) ==
    IF Len(data) < 2 THEN Raise("IndexError")
    ELSE IF Len(At(data, 1)) < StatsRead(build) THEN Raise("IndexError")
    ELSE TrackerEvent(frames, "PlayerStatsEvent") @@
         [pid |-> At(data, 0)] @@
         PlayerStatsFields(At(data, 1), build)

\* ------------------------------------------------------- UnitBornEvent

UnitBornEvent(frames, data, build) ==
    IF Len(data) < 3 THEN Raise("IndexError")
    ELSE LET unit_type_name == decode_utf8(At(data, 2))
         IN  IF IsRaise(unit_type_name) THEN unit_type_name
             ELSE IF Len(data) < 7 THEN Raise("IndexError")
             ELSE LET x == ScaleCoord(At(data, 5), build)
                      y == ScaleCoord(At(data, 6), build)
                  IN  TrackerEvent(frames, "UnitBornEvent") @@
                      [unit_id_index |-> At(data, 0),
                       unit_id_recycle |-> At(data, 1),
                       unit_id |-> unit_id_of(At(data, 0), At(data, 1)),
                       unit |-> None,
                       unit_type_name |-> unit_type_name,
                       control_pid |-> At(data, 3),
                       upkeep_pid |-> At(data, 4),
                       unit_upkeeper |-> None,
                       unit_controller |-> None,
                       x |-> x, y |-> y, location |-> <<x, y>>]

\* ------------------------------------------------------- UnitDiedEvent

\* if self.killing_unit_index: killing_unit_id = index << 18 | recycle
\* (faulty variant: composed also for a zero index)
killing_unit_id_unchecked(index, recycle) == Some(unit_id_of(index, recycle))

killing_unit_id_of(index, recycle) ==
    IF index # 0 THEN Some(unit_id_of(index, recycle)) ELSE None

\* the killer fields, read only from build 27950 on
KillerFields(data, build) ==
    IF build < 27950
    THEN [killing_unit_index |-> None,
          killing_unit_recycle |-> None,
          killing_unit_id |-> None]
    ELSE [killing_unit_index |-> Some(At(data, 5)),
          killing_unit_recycle |-> Some(At(data, 6)),
          killing_unit_id |-> killing_unit_id_of(At(data, 5), At(data, 6))]

UnitDiedEvent(frames, data, build) ==
    IF Len(data) < 5 THEN Raise("IndexError")
    ELSE IF build >= 27950 /\ Len(data) < 7 THEN Raise("IndexError")
    ELSE LET x == ScaleCoord(At(data, 3), build)
             y == ScaleCoord(At(data, 4), build)
         IN  TrackerEvent(frames, "UnitDiedEvent") @@
             [unit_id_index |-> At(data, 0),
              unit_id_recycle |-> At(data, 1),
              unit_id |-> unit_id_of(At(data, 0), At(data, 1)),
              unit |-> None,
              killer_pid |-> At(data, 2),
              killer |-> None,
              killing_player_id |-> At(data, 2),
              killing_player |-> None,
              x |-> x, y |-> y, location |-> <<x, y>>,
              killing_unit |-> None] @@
             KillerFields(data, build)

\* ------------------------------------------------ UnitOwnerChangeEvent

UnitOwnerChangeEvent(frames, data, build) ==
    IF Len(data) < 4 THEN Raise("IndexError")
    ELSE TrackerEvent(frames, "UnitOwnerChangeEvent") @@
         [unit_id_index |-> At(data, 0),
          unit_id_recycle |-> At(data, 1),
          unit_id |-> unit_id_of(At(data, 0), At(data, 1)),
          unit |-> None,
          control_pid |-> At(data, 2),
          upkeep_pid |-> At(data, 3),
          unit_upkeeper |-> None,
          unit_controller |-> None]

\* ------------------------------------------------- UnitTypeChangeEvent

UnitTypeChangeEvent(frames, data, build) ==
    IF Len(data) < 3 THEN Raise("IndexError")
    ELSE LET unit_type_name == decode_utf8(At(data, 2))
         IN  IF IsRaise(unit_type_name) THEN unit_type_name
             ELSE TrackerEvent(frames, "UnitTypeChangeEvent") @@
                  [unit_id_index |-> At(data, 0),
                   unit_id_recycle |-> At(data, 1),
                   unit_id |-> unit_id_of(At(data, 0), At(data, 1)),
                   unit |-> None,
                   unit_type_name |-> unit_type_name]

\* ------------------------------------------------ UpgradeCompleteEvent

UpgradeCompleteEvent(frames, data, build) ==
    IF Len(data) < 2 THEN Raise("IndexError")
    ELSE LET upgrade_type_name == decode_utf8(At(data, 1))
         IN  IF IsRaise(upgrade_type_name) THEN upgrade_type_name
             ELSE IF Len(data) < 3 THEN Raise("IndexError")
             ELSE TrackerEvent(frames, "UpgradeCompleteEvent") @@
                  [pid |-> At(data, 0),
                   player |-> None,
                   upgrade_type_name |-> upgrade_type_name,
                   count |-> At(data, 2)]

\* ------------------------------------------------------- UnitInitEvent

UnitInitEvent(frames, data, build) ==
    IF Len(data) < 3 THEN Raise("IndexError")
    ELSE LET unit_type_name == decode_utf8(At(data, 2))
         IN  IF IsRaise(unit_type_name) THEN unit_type_name
             ELSE IF Len(data) < 7 THEN Raise("IndexError")
             ELSE LET x == ScaleCoord(At(data, 5), build)
                      y == ScaleCoord(At(data, 6), build)
                  IN  TrackerEvent(frames, "UnitInitEvent") @@
                      [unit_id_index |-> At(data, 0),
                       unit_id_recycle |-> At(data, 1),
                       unit_id |-> unit_id_of(At(data, 0), At(data, 1)),
                       unit |-> None,
                       unit_type_name |-> unit_type_name,
                       control_pid |-> At(data, 3),
                       upkeep_pid |-> At(data, 4),
                       unit_upkeeper |-> None,
                       unit_controller |-> None,
                       x |-> x, y |-> y, location |-> <<x, y>>]

\* ------------------------------------------------------- UnitDoneEvent

UnitDoneEvent(frames, data, build) ==
    IF Len(data) < 2 THEN Raise("IndexError")
    ELSE TrackerEvent(frames, "UnitDoneEvent") @@
         [unit_id_index |-> At(data, 0),
          unit_id_recycle |-> At(data, 1),
          unit_id |-> unit_id_of(At(data, 0), At(data, 1)),
          unit |-> None]

\* -------------------------------------------------- UnitPositionsEvent

\* the loop body for i in range(0, len(items), 3), from window i on:
\* the positions appended, or the IndexError of a window cut short
\* (faulty variant: each delta added to first_unit_index, not accumulated)
RECURSIVE PositionsFrom_restart(_, _, _, _, _)
PositionsFrom_restart(items, i, unit_index, build, positions) ==
    IF i >= Len(items) THEN [positions |-> positions]
    ELSE IF i + 2 >= Len(items) THEN Raise("IndexError")
    ELSE LET next_index == unit_index + At(items, i)
             x == ScaleCoord(At(items, i + 1), build)
             y == ScaleCoord(At(items, i + 2), build)
         IN  PositionsFrom_restart(items, i + 3, unit_index, build,
                                   Append(positions, <<next_index, <<x, y>>>>))

\* (faulty variant: a window cut short ends the walk without an error)
RECURSIVE PositionsFrom_truncating(_, _, _, _, _)
PositionsFrom_truncating(items, i, unit_index, build, positions) ==
    IF i + 2 >= Len(items) THEN [positions |-> positions]
    ELSE LET next_index == unit_index + At(items, i)
             x == ScaleCoord(At(items, i + 1), build)
             y == ScaleCoord(At(items, i + 2), build)
         IN  PositionsFrom_truncating(items, i + 3, next_index, build,
                                      Append(positions, <<next_index, <<x, y>>>>))

RECURSIVE PositionsFrom(_, _, _, _, _)
PositionsFrom(items, i, unit_index, build, positions) ==
    IF i >= Len(items) THEN [positions |-> positions]
    ELSE IF i + 2 >= Len(items) THEN Raise("IndexError")
    ELSE LET next_index == unit_index + At(items, i)
             x == ScaleCoord(At(items, i + 1), build)
             y == ScaleCoord(At(items, i + 2), build)
         IN  PositionsFrom(items, i + 3, next_index, build,
                           Append(positions, <<next_index, <<x, y>>>>))

UnitPositionsEvent(frames, data, build) ==
    IF Len(data) < 2 THEN Raise("IndexError")
    ELSE LET walk == PositionsFrom(At(data, 1), 0, At(data, 0), build, <<>>)
         IN  IF IsRaise(walk) THEN walk
             ELSE TrackerEvent(frames, "UnitPositionsEvent") @@
                  [first_unit_index |-> At(data, 0),
                   items |-> At(data, 1),
                   units |-> <<>>,
                   positions |-> walk.positions]

\* ------------------------------------------------- pid and player

\* the value a property returned
Return(v) == [value |-> v]

\* self.unit.owner and self.unit.owner.pid: None has no attribute owner
unit_owner(self) ==
    IF self.unit = None THEN Raise("AttributeError")
    ELSE Return([owner_of |-> self.unit[1]])

unit_owner_pid(self) ==
    IF self.unit = None THEN Raise("AttributeError")
    ELSE Return([pid_of_owner_of |-> self.unit[1]])

\* an attribute the constructor stored, an AttributeError without it
stored_attribute(self, attr) ==
    IF attr \in DOMAIN self THEN Return(self[attr])
    ELSE Raise("AttributeError")

UnitBornEvent_player(self) == Return(self.unit_controller)

UnitBornEvent_pid(self) == Return(self.control_pid)

UnitInitEvent_player(self) == Return(self.unit_upkeeper)

\* (faulty variant: the controller, as a unit-born event answers)
UnitInitEvent_pid_controller(self) == Return(self.control_pid)

UnitInitEvent_pid(self) == Return(self.upkeep_pid)

UnitPositionsEvent_player(self) == Return(0 - 1)

UnitPositionsEvent_pid(self) == Return(0 - 1)

\* event.pid, event.player by the class of the event
Accessor(self, attr) ==
    CASE self.name = "UnitBornEvent" ->
            IF attr = "pid" THEN UnitBornEvent_pid(self)
            ELSE UnitBornEvent_player(self)
      [] self.name = "UnitInitEvent" ->
            IF attr = "pid" THEN UnitInitEvent_pid(self)
            ELSE UnitInitEvent_player(self)
      [] self.name \in {"UnitDiedEvent", "UnitDoneEvent"} ->
            IF attr = "pid" THEN unit_owner_pid(self) ELSE unit_owner(self)
      [] self.name = "UnitTypeChangeEvent" ->
            IF attr = "pid" THEN unit_owner_pid(self)
            ELSE stored_attribute(self, attr)
      [] self.name = "UnitPositionsEvent" ->
            IF attr = "pid" THEN UnitPositionsEvent_pid(self)
            ELSE UnitPositionsEvent_player(self)
      [] OTHER -> stored_attribute(self, attr)

\* ------------------------------------------------------- the records

\* raw frame values: 225, 2^32 + 7, 2^33 + 2^31 + 1
Frames == {Bits(225), Bits(7) \cup {32}, {0, 31, 33}}

\* builds on both sides of the two thresholds
Builds == {26489, 26490, 27949, 27950}

UnitIndexes == {0, 1, 16383}

Recycles == {0, 262143}

Pids == {1, 2}

Coords == {<<10, 20>>, <<0, 255>>}

\* "SCV", and a byte sequence that is not utf-8
Names == {<<83, 67, 86>>, <<255>>}

StatVectors ==
    { [i \in 1..39 |-> -3],
      [i \in 1..39 |-> 0],
      [i \in 1..39 |-> 100 * i],
      [i \in 1..39 |-> 7 * (i - 20)],
      [i \in 1..39 |-> IF i % 2 = 0 THEN 4096 * i ELSE 0 - i],
      [i \in 1..33 |-> i] }

RECURSIVE SeqsUpTo(_, _)
SeqsUpTo(S, n) ==
    IF n = 0 THEN {<<>>}
    ELSE LET shorter == SeqsUpTo(S, n - 1)
         IN  shorter \cup {Append(q, v) : q \in {t \in shorter : Len(t) = n - 1},
                                          v \in S}

ItemSeqs == SeqsUpTo({1, 2}, MaxItems) \cup {<<5, 10, 20, 3, 15, 25>>}

SetupData == {<<pid, type, pid - 1, pid - 1>> : pid \in Pids, type \in {1, 2}}

StatsData == {<<pid, stats>> : pid \in Pids, stats \in StatVectors}

BornData ==
    {<<i, r, n, pids[1], pids[2], c[1], c[2]>> :
        i \in UnitIndexes, r \in Recycles, n \in Names,
        pids \in {<<1, 1>>, <<1, 2>>}, c \in Coords}

DiedData5 ==
    {<<i, r, pid, c[1], c[2]>> :
        i \in UnitIndexes, r \in Recycles, pid \in Pids, c \in Coords}

DiedData ==
    DiedData5 \cup
    {d \o <<ki, kr>> : d \in DiedData5, ki \in UnitIndexes, kr \in Recycles}

OwnerChangeData ==
    {<<i, r, pids[1], pids[2]>> :
        i \in UnitIndexes, r \in Recycles, pids \in {<<1, 1>>, <<1, 2>>}}

TypeChangeData ==
    {<<i, r, n>> : i \in UnitIndexes, r \in Recycles, n \in Names}

UpgradeData == {<<pid, n, count>> : pid \in Pids, n \in Names, count \in {1, 2}}

DoneData == {<<i, r>> : i \in UnitIndexes, r \in Recycles}

PositionsData == {<<100, items>> : items \in ItemSeqs}

\* a record with its last field missing, and with one field too many
Miscounted(S) ==
    {SubSeq(d, 1, Len(d) - 1) : d \in S} \cup {Append(d, 0) : d \in S}

\* recycle values of 2^18 and more: 2^18, 2^19 + 1
WideRecycles == {262144, 524289}

BornDataWide ==
    {<<i, r, <<83, 67, 86>>, 1, 1, 10, 20>> :
        i \in UnitIndexes, r \in WideRecycles}

DoneDataWide == {<<i, r>> : i \in UnitIndexes, r \in WideRecycles}

SetupRecords == SetupData \cup Miscounted(SetupData)

StatsRecords == StatsData \cup Miscounted(StatsData)

\* miscounted unit records: one owner pair and position for each unit and name
BornMiscounted == Miscounted({d \in BornData : d[4] = d[5] /\ d[6] = 10})

BornRecords == BornData \cup BornMiscounted \cup BornDataWide

DiedRecords ==
    DiedData \cup Miscounted({d \in DiedData : d[3] = 1 /\ d[4] = 10})

OwnerChangeRecords == OwnerChangeData \cup Miscounted(OwnerChangeData)

TypeChangeRecords == TypeChangeData \cup Miscounted(TypeChangeData)

UpgradeRecords == UpgradeData \cup Miscounted(UpgradeData)

InitRecords == BornData \cup BornMiscounted

DoneRecords == DoneData \cup Miscounted(DoneData) \cup DoneDataWide

PositionsRecords ==
    PositionsData \cup Miscounted({d \in PositionsData : Len(d[2]) <= 3})

\* the units the replay may come to know
KnownUnits == {unit_id_of(1, 0), unit_id_of(16383, 262143)}

\* ---------------------------------------------------------- the state

NoRecord == [kind |-> "NoRecord"]

\* pid and player not read yet
NoAccess == [attr |-> "none"]

Init ==
    /\ record = NoRecord
    /\ event = NoEvent
    /\ raised = "none"
    /\ registry = {}
    /\ loads = <<>>
    /\ got = NoAccess

\* A run follows one record of the stream: its constructor, then the
\* registry's growth and the load_context calls on the event.  The
\* constructors read nothing but their arguments, so the events of a stream
\* do not act on one another.
Constructed(kind, frames, data, build, r) ==
    [record |-> [kind |-> kind, frames |-> frames, data |-> data, build |-> build],
     event |-> IF IsRaise(r) THEN NoEvent ELSE r,
     raised |-> IF IsRaise(r) THEN r.exc ELSE "none"]

NewPlayerSetupEvent ==
    /\ record = NoRecord
    /\ \E frames \in Frames, data \in SetupRecords, build \in Builds :
        LET c == Constructed("PlayerSetupEvent", frames, data, build,
                             PlayerSetupEvent(frames, data, build))
        IN  /\ record' = c.record
            /\ event' = c.event
            /\ raised' = c.raised
    /\ loads' = <<>>
    /\ UNCHANGED <<registry, got>>

NewPlayerStatsEvent ==
    /\ record = NoRecord
    /\ \E frames \in Frames, data \in StatsRecords, build \in Builds :
        LET c == Constructed("PlayerStatsEvent", frames, data, build,
                             PlayerStatsEvent(frames, data, build))
        IN  /\ record' = c.record
            /\ event' = c.event
            /\ raised' = c.raised
    /\ loads' = <<>>
    /\ UNCHANGED <<registry, got>>

NewUnitBornEvent ==
    /\ record = NoRecord
    /\ \E frames \in Frames, data \in BornRecords, build \in Builds :
        LET c == Constructed("UnitBornEvent", frames, data, build,
                             UnitBornEvent(frames, data, build))
        IN  /\ record' = c.record
            /\ event' = c.event
            /\ raised' = c.raised
    /\ loads' = <<>>
    /\ UNCHANGED <<registry, got>>

NewUnitDiedEvent ==
    /\ record = NoRecord
    /\ \E frames \in Frames, data \in DiedRecords, build \in Builds :
        LET c == Constructed("UnitDiedEvent", frames, data, build,
                             UnitDiedEvent(frames, data, build))
        IN  /\ record' = c.record
            /\ event' = c.event
            /\ raised' = c.raised
    /\ loads' = <<>>
    /\ UNCHANGED <<registry, got>>

NewUnitOwnerChangeEvent ==
    /\ record = NoRecord
    /\ \E frames \in Frames, data \in OwnerChangeRecords, build \in Builds :
        LET c == Constructed("UnitOwnerChangeEvent", frames, data, build,
                             UnitOwnerChangeEvent(frames, data, build))
        IN  /\ record' = c.record
            /\ event' = c.event
            /\ raised' = c.raised
    /\ loads' = <<>>
    /\ UNCHANGED <<registry, got>>

NewUnitTypeChangeEvent ==
    /\ record = NoRecord
    /\ \E frames \in Frames, data \in TypeChangeRecords, build \in Builds :
        LET c == Constructed("UnitTypeChangeEvent", frames, data, build,
                             UnitTypeChangeEvent(frames, data, build))
        IN  /\ record' = c.record
            /\ event' = c.event
            /\ raised' = c.raised
    /\ loads' = <<>>
    /\ UNCHANGED <<registry, got>>

NewUpgradeCompleteEvent ==
    /\ record = NoRecord
    /\ \E frames \in Frames, data \in UpgradeRecords, build \in Builds :
        LET c == Constructed("UpgradeCompleteEvent", frames, data, build,
                             UpgradeCompleteEvent(frames, data, build))
        IN  /\ record' = c.record
            /\ event' = c.event
            /\ raised' = c.raised
    /\ loads' = <<>>
    /\ UNCHANGED <<registry, got>>

NewUnitInitEvent ==
    /\ record = NoRecord
    /\ \E frames \in Frames, data \in InitRecords, build \in Builds :
        LET c == Constructed("UnitInitEvent", frames, data, build,
                             UnitInitEvent(frames, data, build))
        IN  /\ record' = c.record
            /\ event' = c.event
            /\ raised' = c.raised
    /\ loads' = <<>>
    /\ UNCHANGED <<registry, got>>

NewUnitDoneEvent ==
    /\ record = NoRecord
    /\ \E frames \in Frames, data \in DoneRecords, build \in Builds :
        LET c == Constructed("UnitDoneEvent", frames, data, build,
                             UnitDoneEvent(frames, data, build))
        IN  /\ record' = c.record
            /\ event' = c.event
            /\ raised' = c.raised
    /\ loads' = <<>>
    /\ UNCHANGED <<registry, got>>

NewUnitPositionsEvent ==
    /\ record = NoRecord
    /\ \E frames \in Frames, data \in PositionsRecords, build \in Builds :
        LET c == Constructed("UnitPositionsEvent", frames, data, build,
                             UnitPositionsEvent(frames, data, build))
        IN  /\ record' = c.record
            /\ event' = c.event
            /\ raised' = c.raised
    /\ loads' = <<>>
    /\ UNCHANGED <<registry, got>>

\* the driver adds a unit to the replay's registry
RegisterUnit ==
    /\ \E id \in KnownUnits \ registry : registry' = registry \cup {id}
    /\ UNCHANGED <<record, event, raised, loads, got>>

\* event.load_context(replay) on the current event
LoadContext ==
    /\ event # NoEvent
    /\ Len(loads) < MaxCalls
    /\ LET r == load_context(event, registry)
       IN  /\ event' = r.self
           /\ registry' = r.replay
    /\ loads' = Append(loads, registry)
    /\ UNCHANGED <<record, raised, got>>

\* event.pid or event.player read on the current event
ReadAccessor ==
    /\ event # NoEvent
    /\ \E attr \in {"pid", "player"} :
        got' = [attr |-> attr] @@ Accessor(event, attr)
    /\ UNCHANGED <<record, event, raised, registry, loads>>

Next ==
    \/ NewPlayerSetupEvent
    \/ NewPlayerStatsEvent
    \/ NewUnitBornEvent
    \/ NewUnitDiedEvent
    \/ NewUnitOwnerChangeEvent
    \/ NewUnitTypeChangeEvent
    \/ NewUpgradeCompleteEvent
    \/ NewUnitInitEvent
    \/ NewUnitDoneEvent
    \/ NewUnitPositionsEvent
    \/ RegisterUnit
    \/ LoadContext
    \/ ReadAccessor

Spec == Init /\ [][Next]_vars

\* =========================================================== properties

UnitEventNames ==
    {"UnitBornEvent", "UnitDiedEvent", "UnitOwnerChangeEvent",
     "UnitTypeChangeEvent", "UnitInitEvent", "UnitDoneEvent"}

\* the mask 0x3FFFF
Mask18 == Bits(262143)

\* distinct (index, recycle) pairs of the records have distinct ids
UnitIdInjective ==
    \A i1 \in UnitIndexes, i2 \in UnitIndexes, r1 \in Recycles, r2 \in Recycles :
        unit_id_of(i1, r1) = unit_id_of(i2, r2) => (i1 = i2 /\ r1 = r2)

\* C1: for index in [0, 2^14) and recycle in [0, 2^18) the unit_id of every
\* unit event decodes back exactly: unit_id >> 18 = index and
\* unit_id & 0x3FFFF = recycle; so distinct (index, recycle) pairs of the
\* records never give the same unit_id.
C1_UnitIdRoundTrip ==
    /\ (event.name \in UnitEventNames /\ At(record.data, 1) < 262144) =>
        /\ event.unit_id_index = At(record.data, 0)
        /\ event.unit_id_recycle = At(record.data, 1)
        /\ ShiftRight(event.unit_id, 18) = Bits(event.unit_id_index)
        /\ BitAnd(event.unit_id, Mask18) = Bits(event.unit_id_recycle)
    /\ UnitIdInjective

\* a unit event of the largest index and recycle: all 32 bits of the id set
C1_Witness ==
    /\ event.name \in UnitEventNames
    /\ event.unit_id_index = 16383
    /\ event.unit_id_recycle = 262143
    /\ event.unit_id = 0..31

\* the raw coordinates of a born, init or died record
RawX(rec) == IF rec.kind = "UnitDiedEvent" THEN At(rec.data, 3) ELSE At(rec.data, 5)

RawY(rec) == IF rec.kind = "UnitDiedEvent" THEN At(rec.data, 4) ELSE At(rec.data, 6)

\* C2: a UnitBornEvent, UnitInitEvent or UnitDiedEvent built from raw
\* coordinates (raw_x, raw_y) stores x, y and location as 4*raw_x, 4*raw_y
\* when build < 27950 and as raw_x, raw_y when build >= 27950.
C2_CoordinateScale ==
    event.name \in {"UnitBornEvent", "UnitInitEvent", "UnitDiedEvent"} =>
        LET s == IF record.build < 27950 THEN 4 ELSE 1
        IN  /\ event.x = s * RawX(record)
            /\ event.y = s * RawY(record)
            /\ event.location = <<s * RawX(record), s * RawY(record)>>

\* a died event of the last build that scales, and one of the first that
\* does not
C2_Witness ==
    /\ event.name = "UnitDiedEvent"
    /\ \/ record.build = 27949 /\ RawX(record) = 10 /\ event.location = <<40, 80>>
       \/ record.build = 27950 /\ RawX(record) = 10 /\ event.location = <<10, 20>>

\* d1 + ... + dj of the flat sequence [d1, x1, y1, ..., dk, xk, yk]
RECURSIVE DeltaSum(_, _)
DeltaSum(items, j) ==
    IF j = 0 THEN 0 ELSE DeltaSum(items, j - 1) + items[3 * j - 2]

\* C3: a UnitPositionsEvent built from first_unit_index f and 3k items
\* [d1, x1, y1, ..., dk, xk, yk] has exactly k positions in input order,
\* entry j being (f + d1 + ... + dj, (xj * s, yj * s)) with s = 4 when
\* build < 27950 and s = 1 otherwise; f = 100 and [5, 10, 20, 3, 15, 25]
\* give [(105, (10, 20)), (108, (15, 25))], or
\* [(105, (40, 80)), (108, (60, 100))] below build 27950.
C3_Positions ==
    event.name = "UnitPositionsEvent" =>
        LET f == At(record.data, 0)
            items == At(record.data, 1)
            s == IF record.build < 27950 THEN 4 ELSE 1
        IN  /\ Len(items) % 3 = 0
            /\ Len(event.positions) = Len(items) \div 3
            /\ \A j \in 1..Len(event.positions) :
                event.positions[j] =
                    <<f + DeltaSum(items, j),
                      <<items[3 * j - 1] * s, items[3 * j] * s>>>>
            /\ (f = 100 /\ items = <<5, 10, 20, 3, 15, 25>>) =>
                event.positions =
                    IF record.build >= 27950
                    THEN <<<<105, <<10, 20>>>>, <<108, <<15, 25>>>>>>
                    ELSE <<<<105, <<40, 80>>>>, <<108, <<60, 100>>>>>>

\* the example of the claim, below build 27950
C3_Witness ==
    /\ event.name = "UnitPositionsEvent"
    /\ record.build < 27950
    /\ event.first_unit_index = 100
    /\ event.items = <<5, 10, 20, 3, 15, 25>>
    /\ event.positions = <<<<105, <<40, 80>>>>, <<108, <<60, 100>>>>>>

\* the field each of the 39 stat slots is stored in, slot 0 first
SlotField ==
    <<"minerals_current",
      "vespene_current",
      "minerals_collection_rate",
      "vespene_collection_rate",
      "workers_active_count",
      "minerals_used_in_progress_army",
      "minerals_used_in_progress_economy",
      "minerals_used_in_progress_technology",
      "vespene_used_in_progress_army",
      "vespene_used_in_progress_economy",
      "vespene_used_in_progress_technology",
      "minerals_used_current_army",
      "minerals_used_current_economy",
      "minerals_used_current_technology",
      "vespene_used_current_army",
      "vespene_used_current_economy",
      "vespene_used_current_technology",
      "minerals_lost_army",
      "minerals_lost_economy",
      "minerals_lost_technology",
      "vespene_lost_army",
      "vespene_lost_economy",
      "vespene_lost_technology",
      "minerals_killed_army",
      "minerals_killed_economy",
      "minerals_killed_technology",
      "vespene_killed_army",
      "vespene_killed_economy",
      "vespene_killed_technology",
      "food_used",
      "food_made",
      "minerals_used_active_forces",
      "vespene_used_active_forces",
      "ff_minerals_lost_army",
      "ff_minerals_lost_economy",
      "ff_minerals_lost_technology",
      "ff_vespene_lost_army",
      "ff_vespene_lost_economy",
      "ff_vespene_lost_technology">>

Max0(v) == IF v < 0 THEN 0 ELSE v

\* the field of slot i holds the number v: a food field holds a quotient
\* by 4096.0, a friendly-fire field a number or None
SlotHolds(e, i, v) ==
    LET f == e[SlotField[i + 1]]
    IN  IF i \in {29, 30} THEN f.num = v * f.den
        ELSE IF i >= 33 THEN f = Some(v)
        ELSE f = v

\* C4, as claimed: for each of the 39 raw stat slots s of a
\* PlayerStatsEvent the value stored in the slot's field equals max(0, s),
\* for every build.
C4_EverySlotClamped ==
    event.name = "PlayerStatsEvent" =>
        \A i \in 0..38 : SlotHolds(event, i, Max0(At(event.stats, i)))

\* C4, amended: every slot field but the food fields (29, 30) holds
\* max(0, s), the friendly-fire fields (33..38) from build 26490 on; the
\* food fields hold max(0, s) / 4096.0; below build 26490 the
\* friendly-fire fields hold None; no stored per-slot value is negative.
C4_SlotsClamped ==
    event.name = "PlayerStatsEvent" =>
        /\ event.stats = At(record.data, 1)
        /\ \A i \in (0..32) \ {29, 30} :
            /\ event[SlotField[i + 1]] = Max0(At(event.stats, i))
            /\ event[SlotField[i + 1]] >= 0
        /\ \A i \in {29, 30} :
            /\ event[SlotField[i + 1]] =
                   [num |-> Max0(At(event.stats, i)), den |-> 4096]
            /\ event[SlotField[i + 1]].num >= 0
        /\ \A i \in 33..38 :
            IF record.build >= 26490
            THEN /\ event[SlotField[i + 1]] = Some(Max0(At(event.stats, i)))
                 /\ event[SlotField[i + 1]][1] >= 0
            ELSE event[SlotField[i + 1]] = None

\* a stats event below build 26490 with a negative slot stored as 0 and a
\* positive food slot stored as its quotient
C4_Witness ==
    /\ event.name = "PlayerStatsEvent"
    /\ record.build < 26490
    /\ At(event.stats, 0) < 0
    /\ event.minerals_current = 0
    /\ At(event.stats, 29) = 122880
    /\ event.food_used = [num |-> 122880, den |-> 4096]
    /\ event.ff_minerals_lost_army = None

StatGroups == {"used_in_progress", "used_current", "lost", "killed"}

\* the fields of a resource's group: total, army, economy, technology
GroupFields ==
    [minerals |->
        [used_in_progress |->
            <<"minerals_used_in_progress", "minerals_used_in_progress_army",
              "minerals_used_in_progress_economy",
              "minerals_used_in_progress_technology">>,
         used_current |->
            <<"minerals_used_current", "minerals_used_current_army",
              "minerals_used_current_economy",
              "minerals_used_current_technology">>,
         lost |->
            <<"minerals_lost", "minerals_lost_army", "minerals_lost_economy",
              "minerals_lost_technology">>,
         killed |->
            <<"minerals_killed", "minerals_killed_army",
              "minerals_killed_economy", "minerals_killed_technology">>],
     vespene |->
        [used_in_progress |->
            <<"vespene_used_in_progress", "vespene_used_in_progress_army",
              "vespene_used_in_progress_economy",
              "vespene_used_in_progress_technology">>,
         used_current |->
            <<"vespene_used_current", "vespene_used_current_army",
              "vespene_used_current_economy",
              "vespene_used_current_technology">>,
         lost |->
            <<"vespene_lost", "vespene_lost_army", "vespene_lost_economy",
              "vespene_lost_technology">>,
         killed |->
            <<"vespene_killed", "vespene_killed_army",
              "vespene_killed_economy", "vespene_killed_technology">>]]

ResourcesField ==
    [used_in_progress |-> "resources_used_in_progress",
     used_current |-> "resources_used_current",
     lost |-> "resources_lost",
     killed |-> "resources_killed"]

\* C5: in every PlayerStatsEvent, for minerals and vespene and each group
\* (used_in_progress, used_current, lost, killed), the category total is
\* the sum of the stored _army, _economy and _technology fields, and
\* resources_<group> = minerals_<group> + vespene_<group>; negative raw
\* slots included.
C5_CategoryTotals ==
    event.name = "PlayerStatsEvent" =>
        \A g \in StatGroups :
            /\ \A res \in {"minerals", "vespene"} :
                LET f == GroupFields[res][g]
                IN  event[f[1]] = event[f[2]] + event[f[3]] + event[f[4]]
            /\ event[ResourcesField[g]] =
                   event[GroupFields.minerals[g][1]]
                   + event[GroupFields.vespene[g][1]]

\* a stats event whose lost slots 17..22 are 73728, -19, 81920, -21,
\* 90112, -23
C5_Witness ==
    /\ event.name = "PlayerStatsEvent"
    /\ At(event.stats, 18) = 0 - 19
    /\ event.minerals_lost_economy = 0
    /\ event.minerals_lost = 155648
    /\ event.vespene_lost = 90112
    /\ event.resources_lost = 245760

FriendlyFireFields ==
    {"ff_minerals_lost_army", "ff_minerals_lost_economy",
     "ff_minerals_lost_technology", "ff_vespene_lost_army",
     "ff_vespene_lost_economy", "ff_vespene_lost_technology"}

\* C6: below build 26490 the six ff_* fields of a PlayerStatsEvent are
\* None (not 0); from build 26490 on each is max(0, raw slot) of its slot
\* 33..38.
C6_FriendlyFire ==
    event.name = "PlayerStatsEvent" =>
        /\ \A i \in 33..38 : SlotField[i + 1] \in FriendlyFireFields
        /\ IF record.build < 26490
           THEN \A f \in FriendlyFireFields : event[f] = None /\ event[f] # Some(0)
           ELSE \A i \in 33..38 :
                    event[SlotField[i + 1]] = Some(Max0(At(event.stats, i)))

\* the first build with friendly-fire fields, a negative slot clamped and
\* a positive one kept
C6_Witness ==
    /\ event.name = "PlayerStatsEvent"
    /\ record.build = 26490
    /\ At(event.stats, 34) < 0
    /\ event.ff_minerals_lost_economy = Some(0)
    /\ At(event.stats, 33) > 0
    /\ event.ff_minerals_lost_army = Some(At(event.stats, 33))

\* the constructor of each record kind
Decode(kind, frames, data, build) ==
    CASE kind = "PlayerSetupEvent" -> PlayerSetupEvent(frames, data, build)
      [] kind = "PlayerStatsEvent" -> PlayerStatsEvent(frames, data, build)
      [] kind = "UnitBornEvent" -> UnitBornEvent(frames, data, build)
      [] kind = "UnitDiedEvent" -> UnitDiedEvent(frames, data, build)
      [] kind = "UnitOwnerChangeEvent" -> UnitOwnerChangeEvent(frames, data, build)
      [] kind = "UnitTypeChangeEvent" -> UnitTypeChangeEvent(frames, data, build)
      [] kind = "UpgradeCompleteEvent" -> UpgradeCompleteEvent(frames, data, build)
      [] kind = "UnitInitEvent" -> UnitInitEvent(frames, data, build)
      [] kind = "UnitDoneEvent" -> UnitDoneEvent(frames, data, build)
      [] kind = "UnitPositionsEvent" -> UnitPositionsEvent(frames, data, build)

\* C7: the stored frame of every tracker event is the raw frame modulo
\* 2^32 (2^32 + 7 is stored as 7), and no constructor fails because of a
\* frame of 2^32 or more: one that raises also raises with frame 0.
C7_FrameWrap ==
    /\ event # NoEvent =>
        /\ event.frame \subseteq 0..31
        /\ \A i \in 0..31 : i \in event.frame <=> i \in record.frames
        /\ record.frames = Bits(7) \cup {32} => event.frame = Bits(7)
    /\ raised # "none" =>
        IsRaise(Decode(record.kind, Bits(0), record.data, record.build))

\* an event built from the raw frame 2^32 + 7
C7_Witness ==
    /\ event # NoEvent
    /\ record.frames = {0, 1, 2, 32}
    /\ event.frame = {0, 1, 2}

\* C8: a UnitDiedEvent below build 27950 has no killing-unit identity
\* (killing_unit_index, killing_unit_recycle, killing_unit_id are None);
\* from build 27950 on killing_unit_id is None when the killer-index field
\* is zero and killer_index << 18 | killer_recycle otherwise.
C8_KillingUnit ==
    event.name = "UnitDiedEvent" =>
        IF record.build < 27950
        THEN /\ event.killing_unit_index = None
             /\ event.killing_unit_recycle = None
             /\ event.killing_unit_id = None
        ELSE LET ki == At(record.data, 5)
                 kr == At(record.data, 6)
             IN  /\ event.killing_unit_index = Some(ki)
                 /\ event.killing_unit_recycle = Some(kr)
                 /\ ki = 0 => event.killing_unit_id = None
                 /\ ki # 0 =>
                     event.killing_unit_id =
                         Some(BitOr(ShiftLeft(Bits(ki), 18), Bits(kr)))

\* a died event from build 27950 on whose killer index is zero and whose
\* killer recycle is not
C8_Witness ==
    /\ event.name = "UnitDiedEvent"
    /\ record.build >= 27950
    /\ event.killing_unit_index = Some(0)
    /\ event.killing_unit_recycle = Some(262143)
    /\ event.killing_unit_id = None

\* the died event names a killing unit
NamesKiller(e) == e.name = "UnitDiedEvent" /\ e.killing_unit_id # None

C10_Idempotent ==
    [][Len(loads') = Len(loads) + 1 =>
          /\ registry' = registry
          /\ (Len(loads) >= 1 /\ loads[Len(loads)] = registry) => event' = event]_vars

\* two load_context calls on an event against the same, non-empty registry
C10_Witness ==
    /\ event # NoEvent
    /\ Len(loads) = 2
    /\ loads[1] = loads[2]
    /\ loads[2] = registry
    /\ registry # {}
    /\ event = Decode(record.kind, record.frames, record.data, record.build)

\* the field count of a record of each kind
ExpectedFields(kind, build) ==
    CASE kind = "PlayerSetupEvent" -> 4
      [] kind = "PlayerStatsEvent" -> 2
      [] kind = "UnitBornEvent" -> 7
      [] kind = "UnitDiedEvent" -> IF build >= 27950 THEN 7 ELSE 5
      [] kind = "UnitOwnerChangeEvent" -> 4
      [] kind = "UnitTypeChangeEvent" -> 3
      [] kind = "UpgradeCompleteEvent" -> 3
      [] kind = "UnitInitEvent" -> 7
      [] kind = "UnitDoneEvent" -> 2
      [] kind = "UnitPositionsEvent" -> 2

\* the position of the record's text field, from 0; -1 when it has none
TextField(kind) ==
    CASE kind \in {"UnitBornEvent", "UnitInitEvent", "UnitTypeChangeEvent"} -> 2
      [] kind = "UpgradeCompleteEvent" -> 1
      [] OTHER -> 0 - 1

\* the record's text field is there and is not utf-8
BadText(rec) ==
    /\ TextField(rec.kind) >= 0
    /\ Len(rec.data) > TextField(rec.kind)
    /\ IsRaise(decode_utf8(At(rec.data, TextField(rec.kind))))

\* the fields of the record are themselves well formed: text that is
\* utf-8, a stat vector with the slots of the build, items in triples
FieldsWellFormed(rec) ==
    /\ ~BadText(rec)
    /\ rec.kind = "PlayerStatsEvent" =>
        Len(At(rec.data, 1)) >= (IF rec.build >= 26490 THEN 39 ELSE 33)
    /\ rec.kind = "UnitPositionsEvent" => Len(At(rec.data, 1)) % 3 = 0

CutShort(rec) ==
    /\ rec.kind = "UnitPositionsEvent"
    /\ Len(rec.data) >= 2
    /\ Len(At(rec.data, 1)) % 3 # 0

C13_RecycleMasked ==
    (/\ record.kind \in {"UnitBornEvent", "UnitDoneEvent"}
     /\ Len(record.data) >= 2
     /\ At(record.data, 1) >= 262144
     /\ Len(record.data) = ExpectedFields(record.kind, record.build)) =>
        /\ raised = "none"
        /\ ShiftRight(event.unit_id, 18) = Bits(At(record.data, 0))
        /\ BitAnd(event.unit_id, Mask18) = ModPow2(Bits(At(record.data, 1)), 18)

\* the value of the 16 bits of a from bit lo up
RECURSIVE HalfFrom(_, _, _)
HalfFrom(a, lo, k) ==
    IF k = 16 THEN 0
    ELSE (IF lo + k \in a THEN 1 ELSE 0) + 2 * HalfFrom(a, lo, k + 1)

\* 5 * frame - 112 * second lies in range, for a frame below 2^32 given by
\* its bits: the difference is d * 2^16 + l over the 16-bit halves of both
\* numbers, and it is below 112 in size only for d in -5..112
GapIn(frame, second, range) ==
    LET d == 5 * HalfFrom(frame, 16, 0) - 112 * (second \div 65536)
        l == 5 * HalfFrom(frame, 0, 0) - 112 * (second % 65536)
    IN  /\ d \in (0 - 5)..112
        /\ d * 65536 + l \in range

\* C14, as claimed: for every tracker event second is the wrapped frame
\* divided by 22.4, second * 22.4 = frame exactly (5 * frame = 112 *
\* second), with no truncation to a whole number of seconds.
C14_ExactSecond ==
    event # NoEvent => GapIn(event.frame, event.second, {0})

\* C14, amended: second is the wrapped frame divided by 22.4 and truncated
\* to a whole number of seconds: a natural number with
\* second * 22.4 <= frame < (second + 1) * 22.4.
C14_TruncatedSecond ==
    event # NoEvent =>
        /\ event.second \in Nat
        /\ GapIn(event.frame, event.second, 0..111)

\* frame 225 is second 10 (225 / 22.4 = 10.04...), and the frame
\* 2^31 + 1 left of 2^33 + 2^31 + 1 is second 95869805
C14_Witness ==
    /\ event # NoEvent
    /\ \/ event.frame = Bits(225) /\ event.second = 10
       \/ event.frame = {0, 31} /\ event.second = 95869805

\* the fields of an event that hold a reference once resolved
ReferenceFields ==
    {"unit", "unit_upkeeper", "unit_controller", "player", "killer",
     "killing_player", "killing_unit"}

\* the units an event refers to by raw id
Targets(e) ==
    (IF "unit_id" \in DOMAIN e THEN {e.unit_id} ELSE {}) \cup
    (IF "killing_unit_id" \in DOMAIN e /\ e.killing_unit_id # None
     THEN {e.killing_unit_id[1]} ELSE {})

\* the raw ids of the event as the fields of its record give them
RawIdsDecoded(e, data, build) ==
    /\ e.name \in UnitEventNames =>
        e.unit_id = BitOr(ShiftLeft(Bits(At(data, 0)), 18), Bits(At(data, 1)))
    /\ e.name \in {"UnitBornEvent", "UnitInitEvent"} =>
        e.control_pid = At(data, 3) /\ e.upkeep_pid = At(data, 4)
    /\ e.name = "UnitOwnerChangeEvent" =>
        e.control_pid = At(data, 2) /\ e.upkeep_pid = At(data, 3)
    /\ e.name \in {"PlayerSetupEvent", "PlayerStatsEvent", "UpgradeCompleteEvent"} =>
        e.pid = At(data, 0)
    /\ e.name = "UnitDiedEvent" =>
        /\ e.killing_player_id = At(data, 2)
        /\ e.killing_unit_id =
            IF build < 27950 \/ At(data, 5) = 0 THEN None
            ELSE Some(BitOr(ShiftLeft(Bits(At(data, 5)), 18), Bits(At(data, 6))))

\* C15: right after construction, and after any number of load_context
\* calls made while the event's targets are absent from the registry, every
\* reference field of every event (unit, unit_upkeeper, unit_controller,
\* player, killer, killing_player, killing_unit) is unresolved (None) and
\* the raw ids (unit_id, control_pid, upkeep_pid, pid, killing_player_id,
\* killing_unit_id) hold the values decoded from the record.
C15_Unresolved ==
    (/\ event # NoEvent
     /\ \A k \in 1..Len(loads) : Targets(event) \cap loads[k] = {}) =>
        /\ \A f \in ReferenceFields \cap DOMAIN event : event[f] = None
        /\ RawIdsDecoded(event, record.data, record.build)

\* a died event that names its killer, after two load_context calls with
\* another unit in the registry
C15_Witness ==
    /\ NamesKiller(event)
    /\ Len(loads) = 2
    /\ loads[1] # {}
    /\ Targets(event) \cap loads[2] = {}
    /\ event.unit = None
    /\ event.killing_unit = None
    /\ event.killer = None
    /\ event.killing_player = None

\* what pid and player give for unit-init and unit-born events
C16_Derived ==
    got # NoAccess =>
        /\ event.name = "UnitInitEvent" =>
            got = [attr |-> got.attr,
                   value |-> IF got.attr = "pid" THEN event.upkeep_pid
                             ELSE event.unit_upkeeper]
        /\ event.name = "UnitBornEvent" =>
            got = [attr |-> got.attr,
                   value |-> IF got.attr = "pid" THEN event.control_pid
                             ELSE event.unit_controller]
        /\ event.name \in {"UnitInitEvent", "UnitBornEvent"} =>
            /\ event.upkeep_pid = At(record.data, 4)
            /\ event.control_pid = At(record.data, 3)

\* C16: pid and player are derived per class from stored fields: for every
\* UnitInitEvent pid = upkeep_pid and player = unit_upkeeper (the upkeep
\* payer, not the controller), for every UnitBornEvent pid = control_pid
\* and player = unit_controller; reading them changes no stored field.
C16_Accessors ==
    /\ []C16_Derived
    /\ [][got'.attr # got.attr => (event' = event /\ record' = record
                                   /\ registry' = registry)]_vars

\* pid read on a unit-init event whose upkeep payer is not its controller
C16_Witness ==
    /\ event.name = "UnitInitEvent"
    /\ event.control_pid = 1
    /\ event.upkeep_pid = 2
    /\ got = [attr |-> "pid", value |-> 2]

====
